---- MODULE Spec2Model ----
(***************************************************************************)
(* Community Cup fantasy server (server.js): the contest-join handler, the *)
(* team-creation and team-logo handlers, the scoring function, the         *)
(* statistics recompute and scorecard-upload handlers, the leaderboard,    *)
(* the auto-close job and the contest deletion, as concurrent request      *)
(* handlers over one shared document store.  Every `await` of a handler    *)
(* is a point where other handlers may run, so a handler is a sequence of  *)
(* atomic steps, one per store operation that reads or writes data another *)
(* handler can change.                                                     *)
(***************************************************************************)
EXTENDS Integers, Sequences, FiniteSets, TLC

\* ------------------------------------------------------------------ bounds
MaxTime == 1          \* the clock runs 0..MaxTime
MaxTeams == 2         \* teams created in one run
MaxJoins == 2         \* join requests in one run
MaxWickets == 3       \* the wickets of a statistic passed to computePoints

\* ------------------------------------------------------- program constants
TeamSize == 11        \* server.js:413  players.length !== 11

\* ----------------------------------------------------------- value domains
Matches == {"m1", "m2"}
NoMatch == "nomatch"            \* a matchId that names no Match document
ContestIds == {"c1", "c2", "c3"}
NoContest == "nocontest"        \* a contestId that names no Contest document
Viewers == {"v1", "v2"}
NoViewer == ""                  \* req.body.viewerName absent (falsy)
NoTime == -1                    \* a null Date (closeTime / startTime)
NoTeam == 0                     \* Team.findOne found nothing
JoinIds == 1..MaxJoins          \* the join requests of one run, in arrival order
SubmitIds == {1, 2}             \* the statistics submissions of one run, in arrival order
BoardIds == {1, 2}              \* the leaderboard requests of one run
FieldRuns == {0, 1, 45}         \* the runs of a statistic passed to computePoints

\* String.prototype.toUpperCase on the player names the model uses.
ToUpper(s) ==
  CASE s = "rohit" -> "ROHIT"
    [] s = "Rohit" -> "ROHIT"
    [] s = "virat" -> "VIRAT"
    [] s = "Virat" -> "VIRAT"
    [] OTHER -> s

\* A players array: two chosen names and nine fixed ones (already upper case).
Roster(a, b) == <<a, b, "P3", "P4", "P5", "P6", "P7", "P8", "P9", "P10", "P11">>

\* JavaScript truthiness of a number field (0 and absent are falsy).
Truthy(n) == n # 0

VARIABLES
  now,        \* the server clock (new Date() / Date.now())
  matches,    \* Match collection: matchId -> [startTime, stats]
  contests,   \* Contest collection: contestId -> document
  teams,      \* Team collection in insertion order; a team's _id is its index
  entries,    \* TeamEntry collection: a set of documents
  joins,      \* join requests in flight: id -> handler locals and position
  submits,    \* statistics submissions in flight: id -> locals and position
  obs,        \* history of the submissions: who overlapped whom, and snapshots
  events,     \* what io.to(room).emit(..) has sent, in order
  call,       \* one invocation of computePoints: its arguments and outcome
  boards,     \* leaderboard requests in flight: id -> locals and position
  cron,       \* the auto-close job: its locals and position
  teamCall,   \* the latest team-creation request: its players value and answer
  logo,       \* the team-logo upload request: its locals and position
  upload,     \* the upload-scorecard request: its locals and position
  deleted,    \* ids of the Contest documents that deleteOne has removed
  del         \* the contest-deletion request: its locals and position

vars == <<now, matches, contests, teams, entries, joins, submits, obs,
          events, call, boards, cron, teamCall, logo, upload, deleted, del>>


\* ------------------------------------------------------------ HTTP replies
Reply(status, error) == [status |-> status, error |-> error]
NoReply == Reply(0, "")
Ok == Reply(200, "")

\* ------------------------------------------------------------------- store
\* io.to(`match_${room}`).emit(name, ..); by: the request that emits.
Emit(name, room, by) == Append(events, [name |-> name, room |-> room, by |-> by])

\* Team.findOne({ matchId, viewerName }): the first match in natural
\* (insertion) order, or nothing.
TeamFindOne(m, v) ==
  LET hits == {i \in 1..Len(teams) : teams[i].matchId = m /\ teams[i].viewerName = v}
  IN IF hits = {} THEN NoTeam ELSE CHOOSE i \in hits : \A k \in hits : i <= k

\* TeamEntry.countDocuments({ contestId, viewerName })
CountViewerEntries(c, v) ==
  Cardinality({e \in entries : e.contestId = c /\ e.viewerName = v})

\* TeamEntry.countDocuments({ contestId })
CountContestEntries(c) ==
  Cardinality({e \in entries : e.contestId = c})

\* TeamEntry.findOne({ contestId, teamId }) found a document
EntryExists(c, t) ==
  \E e \in entries : e.contestId = c /\ e.teamId = t

\* ------------------------------------------------------ the clock (Date.now)
Tick ==
  /\ now < MaxTime
  /\ now' = now + 1
  /\ UNCHANGED <<matches, contests, teams, entries, joins, submits, obs,
                 events, call, boards, cron, teamCall,
                 logo, upload, deleted, del>>

\* ------------------------------------------ POST /api/contests/:contestId/join
\* A variant of the close check that still admits a request at the very
\* instant of closeTime.
CloseTimeReachedStrict(c, t) == c.closeTime # NoTime /\ t > c.closeTime

\* contest.closeTime && new Date() >= new Date(contest.closeTime)
CloseTimeReached(c, t) == c.closeTime # NoTime /\ t >= c.closeTime

\* matchObj.startTime && Date.now() >= new Date(matchObj.startTime).getTime()
MatchStarted(m, t) == m.startTime # NoTime /\ t >= m.startTime

\* contest.perViewerLimit && currentEntries >= (contest.perViewerLimit || 1)
ViewerLimitReached(c, currentEntries) ==
  Truthy(c.perViewerLimit) /\ currentEntries >= c.perViewerLimit

\* A variant of the capacity check that lets one entry too many in.
ContestFullStrict(c, totalEntries) == totalEntries > c.maxEntries

\* totalEntries >= contest.maxEntries
ContestFull(c, totalEntries) == totalEntries >= c.maxEntries

IdleJoin ==
  [pc |-> "idle", contestId |-> NoContest, viewerName |-> NoViewer, at |-> 0,
   team |-> NoTeam, currentEntries |-> 0, totalEntries |-> 0,
   duplicate |-> FALSE, reply |-> NoReply]

JoinDone(j, reply) == [joins EXCEPT ![j].pc = "done", ![j].reply = reply]

\* Lines 370-384: validation, the contest and its match, the two close checks
\* against the clock, and the viewer's team.
JoinStart(j, cid, v) ==
  /\ joins[j].pc = "idle"
  /\ \A k \in JoinIds : k < j => joins[k].pc # "idle"   \* ids in arrival order
  /\ LET arrived == [joins EXCEPT ![j].contestId = cid, ![j].viewerName = v,
                                  ![j].at = now]
         reject(reply) == [arrived EXCEPT ![j].pc = "done", ![j].reply = reply]
     IN joins' =
          IF v = NoViewer THEN reject(Reply(400, "viewerName required"))
          ELSE IF cid \notin DOMAIN contests \ deleted
            THEN reject(Reply(404, "No contest"))
          ELSE IF contests[cid].matchId \notin DOMAIN matches
            THEN reject(Reply(500, "Match not found for contest"))
          ELSE IF CloseTimeReached(contests[cid], now)
            THEN reject(Reply(400, "Contest closed"))
          ELSE IF MatchStarted(matches[contests[cid].matchId], now)
            THEN reject(Reply(400, "Contest closed - match already started"))
          ELSE IF TeamFindOne(contests[cid].matchId, v) = NoTeam
            THEN reject(Reply(400, "Create a team first"))
          ELSE [arrived EXCEPT ![j].pc = "countViewer",
                               ![j].team = TeamFindOne(contests[cid].matchId, v)]
  /\ UNCHANGED <<now, matches, contests, teams, entries, submits, obs,
                 events, call, boards, cron, teamCall,
                 logo, upload, deleted, del>>

\* Lines 386-387: the viewer's entries in the contest against perViewerLimit.
JoinCountViewer(j) ==
  /\ joins[j].pc = "countViewer"
  /\ LET c == contests[joins[j].contestId]
         n == CountViewerEntries(joins[j].contestId, joins[j].viewerName)
         counted == [joins EXCEPT ![j].currentEntries = n]
     IN joins' =
          IF ViewerLimitReached(c, n)
            THEN [counted EXCEPT ![j].pc = "done",
                    ![j].reply = Reply(400, "Entry limit reached for viewer")]
          ELSE IF Truthy(c.maxEntries)
            THEN [counted EXCEPT ![j].pc = "countTotal"]
          ELSE [counted EXCEPT ![j].pc = "findDuplicate"]
  /\ UNCHANGED <<now, matches, contests, teams, entries, submits, obs,
                 events, call, boards, cron, teamCall,
                 logo, upload, deleted, del>>

\* Lines 389-392: the contest's entries against maxEntries.
JoinCountTotal(j) ==
  /\ joins[j].pc = "countTotal"
  /\ LET c == contests[joins[j].contestId]
         n == CountContestEntries(joins[j].contestId)
         counted == [joins EXCEPT ![j].totalEntries = n]
     IN joins' =
          IF ContestFull(c, n)
            THEN [counted EXCEPT ![j].pc = "done",
                    ![j].reply = Reply(400, "Contest is full")]
          ELSE [counted EXCEPT ![j].pc = "findDuplicate"]
  /\ UNCHANGED <<now, matches, contests, teams, entries, submits, obs,
                 events, call, boards, cron, teamCall,
                 logo, upload, deleted, del>>

\* Lines 394-395: an entry of this team in this contest.
JoinFindDuplicate(j) ==
  /\ joins[j].pc = "findDuplicate"
  /\ LET dup == EntryExists(joins[j].contestId, joins[j].team)
         looked == [joins EXCEPT ![j].duplicate = dup]
     IN joins' =
          IF dup
            THEN [looked EXCEPT ![j].pc = "done",
                    ![j].reply = Reply(400, "This team is already joined in the contest")]
          ELSE [looked EXCEPT ![j].pc = "create"]
  /\ UNCHANGED <<now, matches, contests, teams, entries, submits, obs,
                 events, call, boards, cron, teamCall,
                 logo, upload, deleted, del>>

\* A variant of the insert that copies the team's vice as the entry's captain.
JoinCreateSwapped(j) ==
  /\ joins[j].pc = "create"
  /\ LET t == teams[joins[j].team]
         c == contests[joins[j].contestId]
     IN entries' = entries \cup
          {[id |-> j, matchId |-> c.matchId, contestId |-> joins[j].contestId,
            viewerName |-> joins[j].viewerName, players |-> t.players,
            captain |-> t.vice, vice |-> t.captain, teamId |-> joins[j].team]}
  /\ events' = Emit("contestEntryUpdate", contests[joins[j].contestId].matchId, j)
  /\ joins' = JoinDone(j, Ok)
  /\ UNCHANGED <<now, matches, contests, teams, submits, obs,
                 call, boards, cron, teamCall,
                 logo, upload, deleted, del>>

\* Lines 397-399: TeamEntry.create with the team's data copied, then 200.
\* The document's _id is new; the request's id stands for it.
JoinCreate(j) ==
  /\ joins[j].pc = "create"
  /\ LET t == teams[joins[j].team]
         c == contests[joins[j].contestId]
     IN entries' = entries \cup
          {[id |-> j, matchId |-> c.matchId, contestId |-> joins[j].contestId,
            viewerName |-> joins[j].viewerName, players |-> t.players,
            captain |-> t.captain, vice |-> t.vice, teamId |-> joins[j].team]}
  /\ events' = Emit("contestEntryUpdate", contests[joins[j].contestId].matchId, j)
  /\ joins' = JoinDone(j, Ok)
  /\ UNCHANGED <<now, matches, contests, teams, submits, obs,
                 call, boards, cron, teamCall,
                 logo, upload, deleted, del>>

\* Lines 400-403: a store operation of the handler throws; the catch answers 500.
JoinStoreError(j) ==
  /\ joins[j].pc \in {"countViewer", "countTotal", "findDuplicate", "create"}
  /\ joins' = JoinDone(j, Reply(500, "Join failed"))
  /\ UNCHANGED <<now, matches, contests, teams, entries, submits, obs,
                 events, call, boards, cron, teamCall,
                 logo, upload, deleted, del>>

Join(j) ==
  \/ \E cid \in ContestIds \cup {NoContest}, v \in Viewers \cup {NoViewer} :
       JoinStart(j, cid, v)
  \/ JoinCountViewer(j)
  \/ JoinCountTotal(j)
  \/ JoinFindDuplicate(j)
  \/ JoinCreate(j)
  \/ JoinStoreError(j)

\* ---------------------------------------------------------------- scoring
\* (stat.f || 0): an absent field counts 0.
Num(stat, f) == IF f \in DOMAIN stat THEN stat[f] ELSE 0

\* if (stat.mvp): an absent flag is false.
Flag(stat, f) == IF f \in DOMAIN stat THEN stat[f] ELSE FALSE

\* A variant of the rounding that drops the half.
RoundHalfDown(x) == x \div 2

\* Math.round(x / 2) for an integer x: halves go up.
RoundHalf(x) == (x + 1) \div 2

\* A variant of the scoring without the bonus for three wickets.
computePointsNoBonus(stat, isCaptain, isVice) ==
  LET base == Num(stat, "runs") + Num(stat, "fours") + Num(stat, "sixes") * 2
            + Num(stat, "wickets") * 25 + Num(stat, "maidens") * 10
            + Num(stat, "catches") * 8
            + (IF Flag(stat, "mvp") THEN 15 ELSE 0)
      doubled == IF isCaptain THEN base * 2 ELSE base
  IN IF isVice THEN RoundHalf(doubled * 3) ELSE doubled

\* function computePoints(stat = {}, isCaptain = false, isVice = false)
computePoints(stat, isCaptain, isVice) ==
  LET base == Num(stat, "runs") * 1
            + Num(stat, "fours") * 1
            + Num(stat, "sixes") * 2
            + Num(stat, "wickets") * 25
            + (IF Num(stat, "wickets") >= 3 THEN 10 ELSE 0)
            + Num(stat, "maidens") * 10
            + Num(stat, "catches") * 8
            + (IF Flag(stat, "mvp") THEN 15 ELSE 0)
      doubled == IF isCaptain THEN base * 2 ELSE base
  IN IF isVice THEN RoundHalf(doubled * 3) ELSE doubled

\* The object {} : no field at all.
EmptyStat == [f \in {} |-> 0]

\* if (s.playerName): the field is present and not the empty string.
HasName(s) == "playerName" \in DOMAIN s /\ s.playerName # ""

\* statMap[key] = s
MapSet(map, key, s) ==
  [k \in DOMAIN map \cup {key} |-> IF k = key THEN s ELSE map[k]]

\* stats.forEach(s => { if (s.playerName) statMap[s.playerName.toUpperCase()] = s; })
RECURSIVE BuildStatMap(_, _, _)
BuildStatMap(stats, i, map) ==
  IF i > Len(stats) THEN map
  ELSE BuildStatMap(stats, i + 1,
         IF HasName(stats[i])
           THEN MapSet(map, ToUpper(stats[i].playerName), stats[i])
           ELSE map)

statMap(stats) == BuildStatMap(stats, 1, EmptyStat)

\* A variant of the lookup that takes the player's name as it is written.
StatOfExact(map, p) == IF p \in DOMAIN map THEN map[p] ELSE EmptyStat

\* statMap[(p||"").toUpperCase()] || {}
StatOf(map, p) == IF ToUpper(p) \in DOMAIN map THEN map[ToUpper(p)] ELSE EmptyStat

\* (t.players || []).forEach(p => { total += computePoints(..., p === t.captain, p === t.vice); })
RECURSIVE SumPlayers(_, _, _, _)
SumPlayers(map, t, i, total) ==
  IF i > Len(t.players) THEN total
  ELSE SumPlayers(map, t, i + 1,
         total + computePoints(StatOf(map, t.players[i]),
                               t.players[i] = t.captain, t.players[i] = t.vice))

TeamTotal(stats, t) == SumPlayers(statMap(stats), t, 1, 0)

\* ----------------------------------------------- history of the submissions
\* What the claims about submissions need to know of the past:
\* obs.conc[r]: the writers of r's match that ran while r did (other
\*   submissions by id, TeamWriter for a team creation);
\* obs.last[m]: the submission of m that finished last (by), valid while
\*   nothing has written to m's statistics or teams since it finished;
\* obs.pred[r]: obs.last of r's match when r arrived, with every team's total
\*   at that moment.
TeamWriter == 0
NoSnap == [valid |-> FALSE, by |-> 0, totals |-> <<>>]
Totals == [i \in 1..Len(teams) |-> teams[i].totalPoints]

Active(r, m) == submits[r].pc \in {"find", "loop"} /\ submits[r].matchId = m

ObsInit ==
  [conc |-> [r \in SubmitIds |-> {}],
   pred |-> [r \in SubmitIds |-> NoSnap],
   last |-> [m \in Matches |-> [valid |-> FALSE, by |-> 0]]]

\* A team of m is created.
ObsTeamCreated(m) ==
  [obs EXCEPT !.conc = [r \in SubmitIds |->
                          IF Active(r, m) THEN obs.conc[r] \cup {TeamWriter}
                          ELSE obs.conc[r]],
              !.last[m].valid = FALSE]

\* Submission who arrives and stores its statistics on m.
ObsStarted(m, who) ==
  [obs EXCEPT !.conc = [r \in SubmitIds |->
                          IF r = who THEN {k \in SubmitIds : Active(k, m)}
                          ELSE IF Active(r, m) THEN obs.conc[r] \cup {who}
                          ELSE obs.conc[r]],
              !.pred[who] = IF obs.last[m].valid
                              THEN [valid |-> TRUE, by |-> obs.last[m].by,
                                    totals |-> Totals]
                              ELSE NoSnap,
              !.last[m].valid = FALSE]

\* A submission writes a team total of m.
ObsUpdated(m) == [obs EXCEPT !.last[m].valid = FALSE]

\* Submission r of m has answered.
ObsFinished(m, r) == [obs EXCEPT !.last[m] = [valid |-> TRUE, by |-> r]]

\* ------------------------------------------- POST /api/matches/:matchId/teams
\* The body's players value is an array (isArray) of the given items or not.
TeamAnswer(isArray, players, reply) ==
  [isArray |-> isArray, players |-> players, reply |-> reply]

NoTeamCall == TeamAnswer(TRUE, <<>>, NoReply)

\* A variant of the handler that takes any array as the players.
CreateTeamAnyArray(m, v, isArray, players, captain, vice) ==
  /\ Len(teams) < MaxTeams
  /\ IF ~isArray
       THEN /\ teamCall' = TeamAnswer(isArray, players,
                                      Reply(400, "Team must have 11 players"))
            /\ UNCHANGED <<teams, obs>>
       ELSE /\ teams' = Append(teams,
                 [matchId |-> m, viewerName |-> v, players |-> players,
                  captain |-> captain, vice |-> vice,
                  totalPoints |-> 0, banned |-> FALSE])
            /\ obs' = ObsTeamCreated(m)
            /\ teamCall' = TeamAnswer(isArray, players, Ok)
  /\ UNCHANGED <<now, matches, contests, entries, joins, submits,
                 events, call, boards, cron,
                 logo, upload, deleted, del>>

CreateTeam(m, v, isArray, players, captain, vice) ==
  /\ Len(teams) < MaxTeams
  /\ IF ~isArray \/ Len(players) # TeamSize
       THEN /\ teamCall' = TeamAnswer(isArray, players,
                                      Reply(400, "Team must have 11 players"))
            /\ UNCHANGED <<teams, obs>>
       ELSE /\ teams' = Append(teams,
                 [matchId |-> m, viewerName |-> v, players |-> players,
                  captain |-> captain, vice |-> vice,
                  totalPoints |-> 0, banned |-> FALSE])
            /\ obs' = ObsTeamCreated(m)
            /\ teamCall' = TeamAnswer(isArray, players, Ok)
  /\ UNCHANGED <<now, matches, contests, entries, joins, submits,
                 events, call, boards, cron,
                 logo, upload, deleted, del>>

\* --------------------------------------- POST /api/admin/matches/:matchId/stats
\* asked: the request as it arrived (its :matchId, and whether its stats value
\* is an array).
IdleSubmit ==
  [pc |-> "idle", asked |-> [matchId |-> NoMatch, isArray |-> TRUE],
   matchId |-> NoMatch, stats |-> <<>>, teamIds |-> <<>>, i |-> 1,
   reply |-> NoReply]

\* A variant of the query that returns the first team of the match only.
TeamFindFirst(m, i) ==
  LET ids == {k \in i..Len(teams) : teams[k].matchId = m}
  IN IF ids = {} THEN <<>> ELSE <<CHOOSE k \in ids : \A h \in ids : k <= h>>

\* Team.find({ matchId }): the ids of the match's teams in natural order.
RECURSIVE TeamFind(_, _)
TeamFind(m, i) ==
  IF i > Len(teams) THEN <<>>
  ELSE (IF teams[i].matchId = m THEN <<i>> ELSE <<>>) \o TeamFind(m, i + 1)

\* A variant of the save that merges the submitted array into the stored one.
SaveStatsMerged(stored, stats) == stored \o stats

\* Line 516: match.stats = stats (the stored array is replaced).
SaveStats(stored, stats) == stats

\* A variant of the handler that takes a stats value that is not an array
\* for the empty array.
SubmitStartUnchecked(r, m, isArray, stats) ==
  /\ submits[r].pc = "idle"
  /\ \A k \in SubmitIds : k < r => submits[k].pc # "idle"
  /\ LET arrived == [submits EXCEPT
                       ![r].asked = [matchId |-> m, isArray |-> isArray]]
     IN IF m \notin DOMAIN matches
          THEN /\ submits' = [arrived EXCEPT ![r].pc = "done",
                                ![r].reply = Reply(404, "No match")]
               /\ UNCHANGED <<matches, obs>>
        ELSE /\ matches' = [matches EXCEPT
                              ![m].stats = SaveStats(matches[m].stats, stats)]
             /\ submits' = [arrived EXCEPT ![r].pc = "find", ![r].matchId = m,
                                           ![r].stats = stats]
             /\ obs' = ObsStarted(m, r)
  /\ UNCHANGED <<now, contests, teams, entries, joins,
                 events, call, boards, cron, teamCall,
                 logo, upload, deleted, del>>

\* Lines 511-517: validation, the match, and match.stats = stats; match.save().
SubmitStart(r, m, isArray, stats) ==
  /\ submits[r].pc = "idle"
  /\ \A k \in SubmitIds : k < r => submits[k].pc # "idle"   \* ids in arrival order
  /\ LET arrived == [submits EXCEPT
                       ![r].asked = [matchId |-> m, isArray |-> isArray]]
     IN IF ~isArray
          THEN /\ submits' = [arrived EXCEPT ![r].pc = "done",
                                ![r].reply = Reply(400, "stats must be array")]
               /\ UNCHANGED <<matches, obs>>
        ELSE IF m \notin DOMAIN matches
          THEN /\ submits' = [arrived EXCEPT ![r].pc = "done",
                                ![r].reply = Reply(404, "No match")]
               /\ UNCHANGED <<matches, obs>>
        ELSE /\ matches' = [matches EXCEPT
                              ![m].stats = SaveStats(matches[m].stats, stats)]
             /\ submits' = [arrived EXCEPT ![r].pc = "find", ![r].matchId = m,
                                           ![r].stats = stats]
             /\ obs' = ObsStarted(m, r)
  /\ UNCHANGED <<now, contests, teams, entries, joins,
                 events, call, boards, cron, teamCall,
                 logo, upload, deleted, del>>

\* Lines 520-522: the lookup is built from the submitted array; Team.find.
SubmitFind(r) ==
  /\ submits[r].pc = "find"
  /\ submits' = [submits EXCEPT ![r].pc = "loop", ![r].i = 1,
                                ![r].teamIds = TeamFind(submits[r].matchId, 1)]
  /\ UNCHANGED <<now, matches, contests, teams, entries, joins, obs,
                 events, call, boards, cron, teamCall,
                 logo, upload, deleted, del>>

\* A variant of the loop body that adds the new total to the stored one.
LoopTotalAdded(r) ==
  teams[submits[r].teamIds[submits[r].i]].totalPoints
  + TeamTotal(submits[r].stats, teams[submits[r].teamIds[submits[r].i]])

\* The total the loop body computes for the team it is at (lines 524-525).
LoopTotal(r) == TeamTotal(submits[r].stats, teams[submits[r].teamIds[submits[r].i]])

\* Line 526: Team.findByIdAndUpdate(t._id, { totalPoints: total }).
SubmitUpdate(r) ==
  /\ submits[r].pc = "loop"
  /\ submits[r].i <= Len(submits[r].teamIds)
  /\ teams' = [teams EXCEPT ![submits[r].teamIds[submits[r].i]].totalPoints =
                              LoopTotal(r)]
  /\ submits' = [submits EXCEPT ![r].i = submits[r].i + 1]
  /\ obs' = ObsUpdated(submits[r].matchId)
  /\ UNCHANGED <<now, matches, contests, entries, joins,
                 events, call, boards, cron, teamCall,
                 logo, upload, deleted, del>>

\* Lines 529-530: the two events of a recompute, to the match's room.
RecomputeEvents(m, r) ==
  events \o <<[name |-> "matchStatsUpdate", room |-> m, by |-> r],
              [name |-> "leaderboardUpdate", room |-> m, by |-> r]>>

\* A variant of the catch that sends the two events all the same.
SubmitStoreErrorEmitting(r) ==
  /\ \/ submits[r].pc = "find"
     \/ submits[r].pc = "loop" /\ submits[r].i <= Len(submits[r].teamIds)
  /\ events' = RecomputeEvents(submits[r].matchId, r)
  /\ submits' = [submits EXCEPT ![r].pc = "done",
                                ![r].reply = Reply(500, "Failed to update stats")]
  /\ obs' = ObsFinished(submits[r].matchId, r)
  /\ UNCHANGED <<now, matches, contests, teams, entries, joins,
                 call, boards, cron, teamCall,
                 logo, upload, deleted, del>>

\* Lines 532-535: Team.find or a team's update throws; the catch around the
\* whole handler answers 500 and the loop is left.
SubmitStoreError(r) ==
  /\ \/ submits[r].pc = "find"
     \/ submits[r].pc = "loop" /\ submits[r].i <= Len(submits[r].teamIds)
  /\ submits' = [submits EXCEPT ![r].pc = "done",
                                ![r].reply = Reply(500, "Failed to update stats")]
  /\ obs' = ObsFinished(submits[r].matchId, r)
  /\ UNCHANGED <<now, matches, contests, teams, entries, joins,
                 events, call, boards, cron, teamCall,
                 logo, upload, deleted, del>>

\* Lines 529-531: after the loop, the two events and the 200.
SubmitRespond(r) ==
  /\ submits[r].pc = "loop"
  /\ submits[r].i > Len(submits[r].teamIds)
  /\ events' = RecomputeEvents(submits[r].matchId, r)
  /\ submits' = [submits EXCEPT ![r].pc = "done", ![r].reply = Ok]
  /\ obs' = ObsFinished(submits[r].matchId, r)
  /\ UNCHANGED <<now, matches, contests, teams, entries, joins,
                 call, boards, cron, teamCall,
                 logo, upload, deleted, del>>

\* Statistic records as an admin submits them.
StatRohit == [playerName |-> "rohit", runs |-> 45, fours |-> 4, sixes |-> 1,
              wickets |-> 0, maidens |-> 0, catches |-> 1, mvp |-> FALSE]
StatVirat == [playerName |-> "Virat", wickets |-> 3]
StatRohitOld == [playerName |-> "ROHIT", runs |-> 7, mvp |-> TRUE]
StatNameless == [runs |-> 30]

StatsInputs ==
  {<<StatRohit, StatVirat>>, <<StatNameless, StatRohit, StatRohitOld>>}

\* Bodies of team-creation requests.
TeamInputs ==
  {[isArray |-> TRUE, players |-> Roster("rohit", "virat"),
    captain |-> "rohit", vice |-> "virat"],
   [isArray |-> TRUE, players |-> Roster("Rohit", "rohit"),
    captain |-> "rohit", vice |-> "rohit"],
   [isArray |-> TRUE, players |-> <<"rohit", "virat">>,
    captain |-> "rohit", vice |-> "virat"],
   [isArray |-> FALSE, players |-> <<>>, captain |-> "rohit", vice |-> "virat"]}

Submit(r) ==
  \/ \E m \in {"m1", NoMatch}, isArray \in BOOLEAN, stats \in StatsInputs :
       SubmitStart(r, m, isArray, IF isArray THEN stats ELSE <<>>)
  \/ SubmitFind(r)
  \/ SubmitUpdate(r)
  \/ SubmitStoreError(r)
  \/ SubmitRespond(r)

\* ------------------------------------------ GET /api/matches/:matchId/leaderboard
IdleBoard ==
  [pc |-> "idle", matchId |-> NoMatch, stats |-> <<>>, seen |-> <<>>,
   board |-> <<>>, reply |-> NoReply]

\* Array.prototype.sort((a,b) => b.total - a.total): descending by total;
\* the sort is stable, rows of equal total keep the order they had.
RECURSIVE InsertRow(_, _)
InsertRow(sorted, row) ==
  IF sorted = <<>> THEN <<row>>
  ELSE IF Head(sorted).total >= row.total
         THEN <<Head(sorted)>> \o InsertRow(Tail(sorted), row)
         ELSE <<row>> \o sorted

RECURSIVE SortBoard(_)
SortBoard(rows) ==
  IF rows = <<>> THEN <<>>
  ELSE InsertRow(SortBoard(SubSeq(rows, 1, Len(rows) - 1)), rows[Len(rows)])

\* teams.map(t => ({ teamId, viewerName, total })) over the query's result.
BoardRows(stats, ids) ==
  [k \in 1..Len(ids) |->
     [teamId |-> ids[k], viewerName |-> teams[ids[k]].viewerName,
      total |-> TeamTotal(stats, teams[ids[k]])]]

\* A variant of the query without the banned filter.
AllTeamsOf(m) == {i \in 1..Len(teams) : teams[i].matchId = m}

\* The documents Team.find({ matchId, banned: { $ne: true } }) matches.
Unbanned(m) == {i \in 1..Len(teams) : teams[i].matchId = m /\ ~teams[i].banned}

\* The orders in which the store may return them: the query gives no sort,
\* so the order is the store's choice.
Orders(ids) ==
  {o \in [1..Cardinality(ids) -> ids] : \A a, b \in DOMAIN o : a # b => o[a] # o[b]}

\* Lines 540-541: Match.findById(..).lean(); 404 when there is none.
BoardStart(b, m) ==
  /\ boards[b].pc = "idle"
  /\ \A k \in BoardIds : k < b => boards[k].pc # "idle"    \* ids in arrival order
  /\ boards' = IF m \notin DOMAIN matches
                 THEN [boards EXCEPT ![b].pc = "done",
                                     ![b].reply = Reply(404, "No match")]
                 ELSE [boards EXCEPT ![b].pc = "find", ![b].matchId = m,
                                     ![b].stats = matches[m].stats]
  /\ UNCHANGED <<now, matches, contests, teams, entries, joins, submits, obs,
                 events, call, cron, teamCall,
                 logo, upload, deleted, del>>

\* Lines 542-550: Team.find, the lookup, the rows, the sort and the 200.
\* seen: the banned flag of every stored team when the query ran.
BoardFind(b) ==
  /\ boards[b].pc = "find"
  /\ \E o \in Orders(Unbanned(boards[b].matchId)) :
       boards' = [boards EXCEPT ![b].pc = "done", ![b].reply = Ok,
                                ![b].seen = [i \in 1..Len(teams) |-> teams[i].banned],
                                ![b].board = SortBoard(BoardRows(boards[b].stats, o))]
  /\ UNCHANGED <<now, matches, contests, teams, entries, joins, submits, obs,
                 events, call, cron, teamCall,
                 logo, upload, deleted, del>>

\* Lines 551-554: Team.find throws; the catch answers 500.
BoardStoreError(b) ==
  /\ boards[b].pc = "find"
  /\ boards' = [boards EXCEPT ![b].pc = "done",
                              ![b].reply = Reply(500, "Failed to get leaderboard")]
  /\ UNCHANGED <<now, matches, contests, teams, entries, joins, submits, obs,
                 events, call, cron, teamCall,
                 logo, upload, deleted, del>>

Leaderboard(b) ==
  \/ \E m \in {"m1", NoMatch} : BoardStart(b, m)
  \/ BoardFind(b)
  \/ BoardStoreError(b)

\* A moderator marks a stored team as banned (Team.banned; no route of the
\* server writes the field).
BanTeam(i) ==
  /\ i \in 1..Len(teams)
  /\ ~teams[i].banned
  /\ teams' = [teams EXCEPT ![i].banned = TRUE]
  /\ obs' = ObsUpdated(teams[i].matchId)
  /\ UNCHANGED <<now, matches, contests, entries, joins, submits,
                 events, call, boards, cron, teamCall,
                 logo, upload, deleted, del>>

\* ------------------------------------------------- the auto-close job (cron)
\* The job runs every minute (cron.schedule("* * * * *", ..)).
IdleCron == [pc |-> "idle", at |-> 0, candidates |-> <<>>, i |-> 1]

\* The order in which Contest.find returns the documents.
ContestOrder == <<"c1", "c2", "c3">>

\* Contest.find({ archived: { $ne: true }, closed: { $ne: true } })
Candidates ==
  SelectSeq(ContestOrder, LAMBDA c : /\ c \notin deleted
                                     /\ ~contests[c].archived
                                     /\ ~contests[c].closed)

\* A variant of the test that looks at closeTime only.
ShouldCloseByCloseTime(c, m, t) == c.closeTime # NoTime /\ c.closeTime <= t

\* (closeTime && closeTime <= now) || (matchStart && matchStart <= now),
\* for the contest document c, its match document m and the job's now t.
ShouldClose(c, m, t) ==
  \/ c.closeTime # NoTime /\ c.closeTime <= t
  \/ m.startTime # NoTime /\ m.startTime <= t

\* Lines 844-845: now = new Date(); the candidates.
CronStart ==
  /\ cron.pc = "idle"
  /\ cron' = [pc |-> "loop", at |-> now, candidates |-> Candidates, i |-> 1]
  /\ UNCHANGED <<now, matches, contests, teams, entries, joins, submits, obs,
                 events, call, boards, teamCall,
                 logo, upload, deleted, del>>

\* Lines 846-855: the loop body for candidate c: its match, the test, and
\* when it passes the update of the contest and the contestClosed event.
CronStep(c) ==
  /\ cron.pc = "loop"
  /\ cron.i <= Len(cron.candidates)
  /\ cron.candidates[cron.i] = c
  /\ IF ShouldClose(contests[c], matches[contests[c].matchId], cron.at)
       THEN /\ contests' = IF c \in deleted THEN contests
                            ELSE [contests EXCEPT ![c].closed = TRUE,
                                                  ![c].archived = TRUE]
            /\ events' = Emit("contestClosed", contests[c].matchId, 0)
       ELSE UNCHANGED <<contests, events>>
  /\ cron' = [cron EXCEPT !.i = cron.i + 1]
  /\ UNCHANGED <<now, matches, teams, entries, joins, submits, obs,
                 call, boards, teamCall,
                 logo, upload, deleted, del>>

\* The loop is over; the job waits for the next minute.
CronEnd ==
  /\ cron.pc = "loop"
  /\ cron.i > Len(cron.candidates)
  /\ cron' = IdleCron
  /\ UNCHANGED <<now, matches, contests, teams, entries, joins, submits, obs,
                 events, call, boards, teamCall,
                 logo, upload, deleted, del>>

\* Lines 857-859: a store operation of the loop throws; the catch logs it and
\* the run is over.
CronStoreError ==
  /\ cron.pc = "loop"
  /\ cron.i <= Len(cron.candidates)
  /\ cron' = IdleCron
  /\ UNCHANGED <<now, matches, contests, teams, entries, joins, submits, obs,
                 events, call, boards, teamCall,
                 logo, upload, deleted, del>>

Cron ==
  \/ CronStart
  \/ \E c \in ContestIds : CronStep(c)
  \/ CronEnd
  \/ CronStoreError

\* ------------------------------------------------- a call of computePoints
\* The first argument of a call is an object, undefined (the argument is left
\* out) or null.  The default `stat = {}` of line 493 replaces undefined only;
\* with null the first property read, stat.runs (line 495), throws a TypeError.
IdleCall ==
  [kind |-> "object", stat |-> EmptyStat, isCaptain |-> FALSE, isVice |-> FALSE,
   outcome |-> "none", result |-> 0]

FullStats ==
  [runs : FieldRuns, fours : {0, 4}, sixes : {0, 1}, wickets : 0..MaxWickets,
   maidens : {0, 1}, catches : {0, 1}, mvp : BOOLEAN]

\* Objects that lack some or all of the fields.
PartStats ==
  {EmptyStat, [wickets |-> 3], [wickets |-> 2], [runs |-> 1], [mvp |-> TRUE],
   [runs |-> 45, fours |-> 4, sixes |-> 1, catches |-> 1]}

CallInputs ==
  [kind : {"object"}, stat : FullStats \cup PartStats, isCaptain : BOOLEAN,
   isVice : BOOLEAN, outcome : {"pending"}, result : {0}]
  \cup [kind : {"undefined", "null"}, stat : {EmptyStat}, isCaptain : BOOLEAN,
        isVice : BOOLEAN, outcome : {"pending"}, result : {0}]

ComputeCall ==
  /\ call.outcome = "pending"
  /\ call' = IF call.kind = "null"
               THEN [call EXCEPT !.outcome = "threw"]
               ELSE [call EXCEPT !.outcome = "returned",
                                 !.result = computePoints(call.stat, call.isCaptain,
                                                          call.isVice)]
  /\ UNCHANGED <<now, matches, contests, teams, entries, joins, submits, obs,
                 events, boards, cron, teamCall,
                 logo, upload, deleted, del>>

\* ------------------------------------------- normalizeScorecard(provider, raw)
\* A raw payload is a record: kind says whether raw is absent ("none"), an
\* array ("array", its elements in items) or an object ("object", with the
\* fields innings, mvpPlayer, topPerformers, parsedBatting, stats it has).

\* String.prototype.trim on the names that occur in payloads.
Trim(s) ==
  CASE s = " rohit " -> "rohit"
    [] s = "  " -> ""
    [] OTHER -> s

\* (b.player || "").trim()
RowName(row) == IF "player" \in DOMAIN row THEN Trim(row.player) ELSE ""

\* The entry the normalizer makes for a name it has not seen (lines 587, 598, 608).
NewEntry(name) ==
  [playerName |-> name, runs |-> 0, fours |-> 0, sixes |-> 0, wickets |-> 0,
   maidens |-> 0, catches |-> 0, mvp |-> FALSE]

\* The Map of the normalizer, as the sequence of its values in insertion order.
MapIndex(map, name) ==
  LET hits == {k \in 1..Len(map) : map[k].playerName = name}
  IN IF hits = {} THEN 0 ELSE CHOOSE k \in hits : TRUE

\* map.has(name)
MapHas(map, name) == MapIndex(map, name) # 0

\* map.get(name) || { playerName: name, runs: 0, .. }
MapGet(map, name) ==
  IF MapHas(map, name) THEN map[MapIndex(map, name)] ELSE NewEntry(name)

\* map.set(name, entry): a known key keeps its place.
MapPut(map, entry) ==
  IF MapHas(map, entry.playerName)
    THEN [map EXCEPT ![MapIndex(map, entry.playerName)] = entry]
    ELSE Append(map, entry)

\* The body of inn.batting.forEach / inn.bowling.forEach / inn.fielding.forEach
\* for one row: a row without a name is passed over.
ApplyRow(kind, map, row) ==
  LET name == RowName(row)
      entry == MapGet(map, name)
  IN IF name = "" THEN map
     ELSE CASE kind = "batting" ->
                 MapPut(map, [entry EXCEPT !.runs = Num(row, "runs"),
                                           !.fours = Num(row, "fours"),
                                           !.sixes = Num(row, "sixes")])
            [] kind = "bowling" ->
                 MapPut(map, [entry EXCEPT !.wickets = Num(row, "wickets"),
                                           !.maidens = Num(row, "maidens")])
            [] kind = "fielding" ->
                 MapPut(map, [entry EXCEPT !.catches = Num(row, "catches")])

RECURSIVE FoldRows(_, _, _, _)
FoldRows(kind, rows, i, map) ==
  IF i > Len(rows) THEN map
  ELSE FoldRows(kind, rows, i + 1, ApplyRow(kind, map, rows[i]))

\* Array.isArray(inn.batting): a list the innings does not have is passed over.
Rows(inn, kind) == IF kind \in DOMAIN inn THEN inn[kind] ELSE <<>>

\* raw.innings.forEach(inn => ..): batting, then bowling, then fielding.
RECURSIVE FoldInnings(_, _, _)
FoldInnings(innings, i, map) ==
  IF i > Len(innings) THEN map
  ELSE FoldInnings(innings, i + 1,
         FoldRows("fielding", Rows(innings[i], "fielding"), 1,
           FoldRows("bowling", Rows(innings[i], "bowling"), 1,
             FoldRows("batting", Rows(innings[i], "batting"), 1, map))))

\* raw && (raw.mvpPlayer || (raw.topPerformers && raw.topPerformers.manOfTheMatch));
\* "" stands for no candidate.
MvpCandidate(raw) ==
  IF "mvpPlayer" \in DOMAIN raw /\ raw.mvpPlayer # "" THEN raw.mvpPlayer
  ELSE IF "topPerformers" \in DOMAIN raw
          /\ "manOfTheMatch" \in DOMAIN raw.topPerformers
    THEN raw.topPerformers.manOfTheMatch
  ELSE ""

\* Lines 617-618: the candidate's entry gets the flag; a candidate the map does
\* not have gets an entry of its own.
WithMvp(map, name) ==
  IF name = "" THEN map
  ELSE IF MapHas(map, name) THEN MapPut(map, [MapGet(map, name) EXCEPT !.mvp = TRUE])
  ELSE Append(map, [NewEntry(name) EXCEPT !.mvp = TRUE])

\* function normalizeScorecard(provider, raw): the array it returns, or the
\* fact that it threw (a provider other than "example").
normalizeScorecard(provider, raw) ==
  IF provider # "example" THEN [threw |-> TRUE, stats |-> <<>>]
  ELSE [threw |-> FALSE,
        stats |-> WithMvp(IF "innings" \in DOMAIN raw
                            THEN FoldInnings(raw.innings, 1, <<>>)
                            ELSE <<>>,
                          MvpCandidate(raw))]

\* --------------------------- POST /api/admin/matches/:matchId/upload-scorecard
\* p.playerName || p[alt] || ""
FallbackName(p, alt) ==
  IF HasName(p) THEN p.playerName
  ELSE IF alt \in DOMAIN p THEN p[alt]
  ELSE ""

\* Number(p.runs || p.r || 0) of the parsedBatting fallback.
FallbackRuns(p) == IF Truthy(Num(p, "runs")) THEN Num(p, "runs") ELSE Num(p, "r")

\* The object a fallback makes of one element (lines 700-709, 714-723, 728-737).
FallbackStat(p, alt, runs) ==
  [playerName |-> FallbackName(p, alt), runs |-> runs, fours |-> Num(p, "fours"),
   sixes |-> Num(p, "sixes"), wickets |-> Num(p, "wickets"),
   maidens |-> Num(p, "maidens"), catches |-> Num(p, "catches"),
   mvp |-> Flag(p, "mvp")]

\* Lines 684-738: the adapter's result, and while that is empty the fallbacks
\* raw.parsedBatting, raw.stats and raw itself as an array, in this order.
UploadStats(provider, raw) ==
  LET adapted == normalizeScorecard(provider, raw).stats
      parsed == IF adapted = <<>> /\ "parsedBatting" \in DOMAIN raw
                  THEN [k \in 1..Len(raw.parsedBatting) |->
                          FallbackStat(raw.parsedBatting[k], "player",
                                       FallbackRuns(raw.parsedBatting[k]))]
                  ELSE adapted
      listed == IF parsed = <<>> /\ "stats" \in DOMAIN raw
                  THEN [k \in 1..Len(raw.stats) |->
                          FallbackStat(raw.stats[k], "name", Num(raw.stats[k], "runs"))]
                  ELSE parsed
  IN IF listed = <<>> /\ raw.kind = "array"
       THEN [k \in 1..Len(raw.items) |->
               FallbackStat(raw.items[k], "name", Num(raw.items[k], "runs"))]
       ELSE listed

\* The request that the upload is, where a request's id is asked for.
UploadId == 3

\* The body of an answer of the route.
UploadReply(status, error, message, statsCount) ==
  [status |-> status, error |-> error, message |-> message,
   statsCount |-> statsCount]

IdleUpload ==
  [pc |-> "idle", provider |-> "", raw |-> [kind |-> "none"], matchId |-> NoMatch,
   stats |-> <<>>, teamIds |-> <<>>, loaded |-> <<>>, i |-> 1,
   reply |-> UploadReply(0, "", "", 0)]

\* A variant of the handler without the early answer for zero statistics.
UploadStartSavingEmpty(m, provider, raw) ==
  /\ upload.pc = "idle"
  /\ LET stats == UploadStats(provider, raw)
         arrived == [upload EXCEPT !.provider = provider, !.raw = raw,
                                   !.stats = stats]
     IN IF m \notin DOMAIN matches
          THEN /\ upload' = [arrived EXCEPT !.pc = "done",
                                !.reply = UploadReply(404, "Match not found", "", 0)]
               /\ UNCHANGED <<matches, obs>>
          ELSE /\ matches' = [matches EXCEPT
                                ![m].stats = SaveStats(matches[m].stats, stats)]
               /\ upload' = [arrived EXCEPT !.pc = "find", !.matchId = m]
               /\ obs' = ObsUpdated(m)
  /\ UNCHANGED <<now, contests, teams, entries, joins, submits,
                 events, call, boards, cron, teamCall,
                 logo, deleted, del>>

\* Lines 669-755: the statistics of the payload; with none of them the answer
\* is given at once; else the match, and match.stats = stats; match.save().
UploadStart(m, provider, raw) ==
  /\ upload.pc = "idle"
  /\ LET stats == UploadStats(provider, raw)
         arrived == [upload EXCEPT !.provider = provider, !.raw = raw,
                                   !.stats = stats]
     IN IF stats = <<>>
          THEN /\ upload' = [arrived EXCEPT !.pc = "done",
                                !.reply = UploadReply(200, "",
                                  "Saved raw JSON but normalization returned 0 stats.", 0)]
               /\ UNCHANGED <<matches, obs>>
        ELSE IF m \notin DOMAIN matches
          THEN /\ upload' = [arrived EXCEPT !.pc = "done",
                                !.reply = UploadReply(404, "Match not found", "", 0)]
               /\ UNCHANGED <<matches, obs>>
          ELSE /\ matches' = [matches EXCEPT
                                ![m].stats = SaveStats(matches[m].stats, stats)]
               /\ upload' = [arrived EXCEPT !.pc = "find", !.matchId = m]
               /\ obs' = ObsUpdated(m)
  /\ UNCHANGED <<now, contests, teams, entries, joins, submits,
                 events, call, boards, cron, teamCall,
                 logo, deleted, del>>

\* Lines 758-760: the lookup; Team.find({ matchId }), whose documents carry
\* the totals stored at this moment.
UploadFind ==
  /\ upload.pc = "find"
  /\ LET ids == TeamFind(upload.matchId, 1)
     IN upload' = [upload EXCEPT !.pc = "loop", !.i = 1, !.teamIds = ids,
                     !.loaded = [k \in 1..Len(ids) |-> teams[ids[k]].totalPoints]]
  /\ UNCHANGED <<now, matches, contests, teams, entries, joins, submits, obs,
                 events, call, boards, cron, teamCall,
                 logo, deleted, del>>

\* Lines 761-769: t.totalPoints = total; t.save().  save() writes the paths
\* that were modified: a total equal to the one the document was loaded with
\* is not written.
UploadSave ==
  /\ upload.pc = "loop"
  /\ upload.i <= Len(upload.teamIds)
  /\ LET id == upload.teamIds[upload.i]
         total == TeamTotal(upload.stats, teams[id])
     IN teams' = IF total = upload.loaded[upload.i] THEN teams
                 ELSE [teams EXCEPT ![id].totalPoints = total]
  /\ upload' = [upload EXCEPT !.i = upload.i + 1]
  /\ obs' = ObsUpdated(upload.matchId)
  /\ UNCHANGED <<now, matches, contests, entries, joins, submits,
                 events, call, boards, cron, teamCall,
                 logo, deleted, del>>

\* Lines 771-774: after the loop, the two events and the 200.
UploadRespond ==
  /\ upload.pc = "loop"
  /\ upload.i > Len(upload.teamIds)
  /\ events' = RecomputeEvents(upload.matchId, UploadId)
  /\ upload' = [upload EXCEPT !.pc = "done",
                  !.reply = UploadReply(200, "", "Scorecard processed",
                                        Len(upload.stats))]
  /\ UNCHANGED <<now, matches, contests, teams, entries, joins, submits, obs,
                 call, boards, cron, teamCall,
                 logo, deleted, del>>

\* Lines 775-778: Team.find or a save throws; the catch answers 500.
UploadStoreError ==
  /\ \/ upload.pc = "find"
     \/ upload.pc = "loop" /\ upload.i <= Len(upload.teamIds)
  /\ upload' = [upload EXCEPT !.pc = "done",
                  !.reply = UploadReply(500, "Failed to upload/process scorecard",
                                        "", 0)]
  /\ UNCHANGED <<now, matches, contests, teams, entries, joins, submits, obs,
                 events, call, boards, cron, teamCall,
                 logo, deleted, del>>

\* ------------------- POST /api/matches/:matchId/teams/:teamId/logo (team logo)
\* file: "none" (no file sent) or the mimetype of the file.
IdleLogo ==
  [pc |-> "idle", teamId |-> NoTeam, doc |-> <<>>, file |-> "none",
   reply |-> NoReply]

\* Lines 453-455: the file is there and is an image of an allowed type.
FileAnswer(file) ==
  IF file = "none" THEN Reply(400, "No file uploaded")
  ELSE IF file \notin {"image/png", "image/jpeg", "image/webp"}
    THEN Reply(400, "Invalid file type")
  ELSE Ok

\* After the owner check: the file checks, and the way to team.save().
LogoChecked(l, file) ==
  IF FileAnswer(file) = Ok THEN [l EXCEPT !.pc = "save"]
  ELSE [l EXCEPT !.pc = "done", !.reply = FileAnswer(file)]

\* Lines 440-455: Team.findById, the match of the team, and for an admin the
\* file checks; for another user the User document is read first.
LogoStart(t, m, isAdmin, file) ==
  /\ logo.pc = "idle"
  /\ logo' =
       IF t \notin 1..Len(teams)
         THEN [logo EXCEPT !.pc = "done", !.reply = Reply(404, "Team not found")]
       ELSE IF teams[t].matchId # m
         THEN [logo EXCEPT !.pc = "done", !.teamId = t,
                 !.reply = Reply(400, "Team does not belong to this match")]
       ELSE IF isAdmin
         THEN LogoChecked([logo EXCEPT !.teamId = t, !.doc = teams[t],
                                       !.file = file], file)
       ELSE [logo EXCEPT !.pc = "user", !.teamId = t, !.doc = teams[t],
                         !.file = file]
  /\ UNCHANGED <<now, matches, contests, teams, entries, joins, submits, obs,
                 events, call, boards, cron, teamCall,
                 upload, deleted, del>>

\* Lines 448-451: User.findById; owner: the user's displayName is the team's
\* viewerName.
LogoUser(owner) ==
  /\ logo.pc = "user"
  /\ logo' = IF ~owner
               THEN [logo EXCEPT !.pc = "done", !.reply = Reply(403, "Not allowed")]
               ELSE LogoChecked(logo, logo.file)
  /\ UNCHANGED <<now, matches, contests, teams, entries, joins, submits, obs,
                 events, call, boards, cron, teamCall,
                 upload, deleted, del>>

\* A variant of the save that writes the whole document as it was read.
LogoSaveWhole ==
  /\ logo.pc = "save"
  /\ teams' = [teams EXCEPT ![logo.teamId] = logo.doc]
  /\ logo' = [logo EXCEPT !.pc = "done", !.reply = Ok]
  /\ UNCHANGED <<now, matches, contests, entries, joins, submits, obs,
                 events, call, boards, cron, teamCall,
                 upload, deleted, del>>

\* Lines 460-462: team.logoUrl = ..; team.save().  save() writes the modified
\* paths of the schema; logoUrl is not a path of the Team schema, and no other
\* field of the document was assigned.
LogoSave ==
  /\ logo.pc = "save"
  /\ teams' = teams
  /\ logo' = [logo EXCEPT !.pc = "done", !.reply = Ok]
  /\ UNCHANGED <<now, matches, contests, entries, joins, submits, obs,
                 events, call, boards, cron, teamCall,
                 upload, deleted, del>>

\* Lines 463-466: a store operation throws; the catch answers 500.
LogoStoreError ==
  /\ logo.pc \in {"user", "save"}
  /\ logo' = [logo EXCEPT !.pc = "done", !.reply = Reply(500, "Upload failed")]
  /\ UNCHANGED <<now, matches, contests, teams, entries, joins, submits, obs,
                 events, call, boards, cron, teamCall,
                 upload, deleted, del>>

\* ------------------------------------ DELETE /api/admin/contests/:contestId
\* (unnamed/part_004 331-342)
DeleteId == 4

IdleDel == [pc |-> "idle", contestId |-> NoContest, reply |-> NoReply]

\* Line 334: TeamEntry.deleteMany({ contestId }).
DeleteEntries(c) ==
  /\ del.pc = "idle"
  /\ entries' = {e \in entries : e.contestId # c}
  /\ del' = [del EXCEPT !.pc = "contest", !.contestId = c]
  /\ UNCHANGED <<now, matches, contests, teams, joins, submits, obs,
                 events, call, boards, cron, teamCall,
                 logo, upload, deleted>>

\* Lines 335-337: Contest.deleteOne({ _id: contestId }), the contestDeleted
\* event to every socket, and the 200.
DeleteContest ==
  /\ del.pc = "contest"
  /\ deleted' = deleted \cup {del.contestId}
  /\ events' = Emit("contestDeleted", "all", DeleteId)
  /\ del' = [del EXCEPT !.pc = "done", !.reply = Ok]
  /\ UNCHANGED <<now, matches, contests, teams, entries, joins, submits, obs,
                 call, boards, cron, teamCall,
                 logo, upload>>

\* Lines 338-341: a store operation throws; the catch answers 500.
DeleteStoreError ==
  /\ del.pc = "contest"
  /\ del' = [del EXCEPT !.pc = "done", !.reply = Reply(500, "Delete failed")]
  /\ UNCHANGED <<now, matches, contests, teams, entries, joins, submits, obs,
                 events, call, boards, cron, teamCall,
                 logo, upload, deleted>>

Delete ==
  \/ \E c \in ContestIds : DeleteEntries(c)
  \/ DeleteContest
  \/ DeleteStoreError

\* ------------------------------------------------------------ initial state
\* Contests as the admin created them (lines 327-338: maxEntries,
\* perViewerLimit and closeTime are taken from the request body); match m2
\* starts at time 1, match m1 has no start time.  ts: the teams made so far.
InitContests ==
  [c \in ContestIds |->
     CASE c = "c1" -> [matchId |-> "m1", maxEntries |-> 1, perViewerLimit |-> 1,
                       closeTime |-> NoTime, closed |-> FALSE, archived |-> FALSE]
       [] c = "c2" -> [matchId |-> "m1", maxEntries |-> 2, perViewerLimit |-> 2,
                       closeTime |-> 1, closed |-> FALSE, archived |-> FALSE]
       [] c = "c3" -> [matchId |-> "m2", maxEntries |-> 2, perViewerLimit |-> 1,
                       closeTime |-> NoTime, closed |-> FALSE, archived |-> FALSE]]

InitWith(ts) ==
  /\ now = 0
  /\ matches = [m \in Matches |->
                  [startTime |-> IF m = "m2" THEN 1 ELSE NoTime, stats |-> <<>>]]
  /\ contests = InitContests
  /\ teams = ts
  /\ entries = {}
  /\ joins = [j \in JoinIds |-> IdleJoin]
  /\ submits = [r \in SubmitIds |-> IdleSubmit]
  /\ obs = ObsInit
  /\ events = <<>>
  /\ boards = [b \in BoardIds |-> IdleBoard]
  /\ cron = IdleCron
  /\ teamCall = NoTeamCall
  /\ logo = IdleLogo
  /\ upload = IdleUpload
  /\ deleted = {}
  /\ del = IdleDel

Init == InitWith(<<>>) /\ call = IdleCall

\* ---------------------------------------------------------- the join system
\* The teams exist before the joins arrive: v1 made two teams for m1, v2 one
\* for m1, v1 one for m2 (POST /api/matches/:matchId/teams does not limit the
\* teams of a viewer).
TeamOf(m, v) ==
  [matchId |-> m, viewerName |-> v, players |-> Roster("rohit", "virat"),
   captain |-> "rohit", vice |-> "virat", totalPoints |-> 0, banned |-> FALSE]

InitJoin ==
  /\ InitWith(<<TeamOf("m1", "v1"), TeamOf("m1", "v2"), TeamOf("m1", "v1"),
                TeamOf("m2", "v1")>>)
  /\ call = IdleCall

NextJoin ==
  \/ Tick
  \/ \E j \in JoinIds : Join(j)

SpecJoin == InitJoin /\ [][NextJoin]_vars

\* ------------------------------------------------------- the recompute system
NextStats ==
  \/ \E b \in TeamInputs :
       CreateTeam("m1", "v1", b.isArray, b.players, b.captain, b.vice)
  \/ CreateTeam("m2", "v2", TRUE, Roster("rohit", "virat"), "rohit", "virat")
  \/ \E r \in SubmitIds : Submit(r)

SpecStats == Init /\ [][NextStats]_vars

\* ---------------------------------------------------- the auto-close system
\* The clock, the job and one join request.  The job is scheduled again and
\* again, and for each contest the store operations of the job's step on it
\* do not fail for ever.
NextCron ==
  \/ Tick
  \/ Cron
  \/ Join(1)

CronFairness ==
  /\ WF_vars(CronStart)
  /\ WF_vars(CronEnd)
  /\ \A c \in ContestIds : SF_vars(CronStep(c))

SpecCron == InitJoin /\ [][NextCron]_vars /\ CronFairness

\* --------------------------------------------------- the leaderboard system
\* Three teams of m1 exist, two of them with the same players, captain and
\* vice; a submission has stored statistics on m1 and recomputed the totals
\* (or none has run yet).  Teams get banned and leaderboard requests run.
BoardTeams ==
  <<TeamOf("m1", "v1"), TeamOf("m1", "v2"),
    [matchId |-> "m1", viewerName |-> "v1", players |-> Roster("Rohit", "rohit"),
     captain |-> "rohit", vice |-> "rohit", totalPoints |-> 0, banned |-> FALSE]>>

InitBoard ==
  /\ now = 0
  /\ \E stats \in StatsInputs \cup {<<>>} :
       /\ matches = [m \in Matches |->
                       [startTime |-> IF m = "m2" THEN 1 ELSE NoTime,
                        stats |-> IF m = "m1" THEN stats ELSE <<>>]]
       /\ teams = [i \in 1..Len(BoardTeams) |->
                     [BoardTeams[i] EXCEPT
                        !.totalPoints = TeamTotal(stats, BoardTeams[i])]]
  /\ contests = InitContests
  /\ entries = {}
  /\ joins = [j \in JoinIds |-> IdleJoin]
  /\ submits = [r \in SubmitIds |-> IdleSubmit]
  /\ obs = ObsInit
  /\ events = <<>>
  /\ call = IdleCall
  /\ boards = [b \in BoardIds |-> IdleBoard]
  /\ cron = IdleCron
  /\ teamCall = NoTeamCall
  /\ logo = IdleLogo
  /\ upload = IdleUpload
  /\ deleted = {}
  /\ del = IdleDel

NextBoard ==
  \/ \E i \in 1..MaxTeams : BanTeam(i)
  \/ \E b \in BoardIds : Leaderboard(b)

SpecBoard == InitBoard /\ [][NextBoard]_vars

\* ------------------------------------------------------- the scoring system
InitPoints == InitWith(<<>>) /\ call \in CallInputs

NextPoints == ComputeCall

SpecPoints == InitPoints /\ [][NextPoints]_vars

\* ------------------------------------------------- the whole server at work
\* Time 1 has come (the close time of c2, the start of m2) and a run of the
\* auto-close job has closed c3 already.  One team of m1 exists, a submission
\* has stored statistics on m1 and recomputed its total.
\* A team of m2 is created, a join, a logo upload, the auto-close job, a
\* leaderboard read and a submission for either match run side by side.
InitFrame ==
  /\ now = 1
  /\ matches = [m \in Matches |->
                  [startTime |-> IF m = "m2" THEN 1 ELSE NoTime,
                   stats |-> IF m = "m1" THEN <<StatRohit, StatVirat>> ELSE <<>>]]
  /\ teams = <<[TeamOf("m1", "v1") EXCEPT
                  !.totalPoints = TeamTotal(<<StatRohit, StatVirat>>,
                                            TeamOf("m1", "v1"))]>>
  /\ contests = [InitContests EXCEPT !["c3"].closed = TRUE,
                                     !["c3"].archived = TRUE]
  /\ entries = {}
  /\ joins = [j \in JoinIds |-> IdleJoin]
  /\ submits = [r \in SubmitIds |-> IdleSubmit]
  /\ obs = ObsInit
  /\ events = <<>>
  /\ call = IdleCall
  /\ boards = [b \in BoardIds |-> IdleBoard]
  /\ cron = IdleCron
  /\ teamCall = NoTeamCall
  /\ logo = IdleLogo
  /\ upload = IdleUpload
  /\ deleted = {}
  /\ del = IdleDel

NextFrame ==
  \/ CreateTeam("m2", "v2", TRUE, Roster("rohit", "virat"), "rohit", "virat")
  \/ JoinStart(1, "c1", "v1")
  \/ JoinCountViewer(1)
  \/ JoinCountTotal(1)
  \/ JoinFindDuplicate(1)
  \/ JoinCreate(1)
  \/ JoinStoreError(1)
  \/ \E isAdmin \in BOOLEAN : LogoStart(1, "m1", isAdmin, "image/png")
  \/ \E owner \in BOOLEAN : LogoUser(owner)
  \/ LogoSave
  \/ LogoStoreError
  \/ Cron
  \/ Leaderboard(1)
  \/ \E m \in Matches : SubmitStart(1, m, TRUE, <<StatNameless, StatRohit, StatRohitOld>>)
  \/ SubmitFind(1)
  \/ SubmitUpdate(1)
  \/ SubmitStoreError(1)
  \/ SubmitRespond(1)

SpecFrame == InitFrame /\ [][NextFrame]_vars

\* ------------------------------------------------------ the entries at rest
\* The teams of the join system exist.  Two join requests for c2, the clock,
\* the auto-close job and a submission for m2.
NextEntries ==
  \/ Tick
  \/ \E j \in {1, 2} :
       \/ \E v \in Viewers : JoinStart(j, "c2", v)
       \/ JoinCountViewer(j)
       \/ JoinCountTotal(j)
       \/ JoinFindDuplicate(j)
       \/ JoinCreate(j)
       \/ JoinStoreError(j)
  \/ Cron
  \/ SubmitStart(1, "m2", TRUE, <<StatRohit, StatVirat>>)
  \/ SubmitFind(1)
  \/ SubmitUpdate(1)
  \/ SubmitStoreError(1)
  \/ SubmitRespond(1)

SpecEntries == InitJoin /\ [][NextEntries]_vars

\* ------------------------------------------------------ the deletion system
\* The teams of the join system exist.  Two join requests and a contest
\* deletion.
NextDelete ==
  \/ \E j \in {1, 2} : Join(j)
  \/ Delete

SpecDelete == InitJoin /\ [][NextDelete]_vars

\* ------------------------------------------------ reads after a recompute
\* One team of m1 exists.  Submissions, the creation of a second team and a
\* leaderboard request.
InitRead == InitWith(<<TeamOf("m1", "v1")>>) /\ call = IdleCall

NextRead ==
  \/ CreateTeam("m1", "v2", TRUE, Roster("Rohit", "rohit"), "rohit", "rohit")
  \/ \E r \in SubmitIds : Submit(r)
  \/ Leaderboard(1)

SpecRead == InitRead /\ [][NextRead]_vars

\* ----------------------------------------------------- the upload system
\* Payloads of upload-scorecard requests: raw as the route takes it from the
\* body (lines 673-677).
RawScorecard ==
  [kind |-> "object",
   innings |-> <<[batting |-> <<[player |-> " rohit ", runs |-> 45, fours |-> 4,
                                 sixes |-> 1],
                                [player |-> "  ", runs |-> 30]>>,
                  bowling |-> <<[player |-> "Virat", wickets |-> 3]>>,
                  fielding |-> <<[player |-> "rohit", catches |-> 1]>>]>>,
   mvpPlayer |-> "Virat"]

UploadRaws ==
  {[kind |-> "none"],
   RawScorecard,
   [kind |-> "object", innings |-> <<[batting |-> <<[player |-> "  ", runs |-> 30]>>,
                                      bowling |-> <<[wickets |-> 2]>>]>>],
   [kind |-> "object", innings |-> <<>>,
    parsedBatting |-> <<[player |-> "rohit", r |-> 7],
                        [playerName |-> "", runs |-> 30]>>],
   [kind |-> "object", stats |-> <<[name |-> "Virat", wickets |-> 2]>>],
   [kind |-> "object", stats |-> <<>>, parsedBatting |-> <<>>],
   [kind |-> "object", topPerformers |-> [manOfTheMatch |-> "Dhoni"]],
   [kind |-> "array", items |-> <<[playerName |-> "rohit", runs |-> 1],
                                  [runs |-> 30],
                                  [name |-> "Virat", wickets |-> 3, mvp |-> TRUE]>>],
   [kind |-> "array", items |-> <<>>]}

Upload ==
  \/ \E m \in {"m1", NoMatch}, provider \in {"example", "other"},
        raw \in UploadRaws : UploadStart(m, provider, raw)
  \/ UploadFind
  \/ UploadSave
  \/ UploadRespond
  \/ UploadStoreError

\* The store of the leaderboard system (three teams of m1, statistics stored
\* and the totals recomputed, or no statistics yet); an upload arrives.
NextUpload == Upload

SpecUpload == InitBoard /\ [][NextUpload]_vars

\* ------------------------------------------------------ the team-creation system
\* Bodies whose captain or vice is not one of the players ("" : the field is
\* left out and the schema's default is stored).
OutsiderInputs ==
  {[isArray |-> TRUE, players |-> Roster("rohit", "virat"),
    captain |-> "dhoni", vice |-> "virat"],
   [isArray |-> TRUE, players |-> Roster("rohit", "virat"),
    captain |-> "rohit", vice |-> ""]}

NextTeams ==
  \E m \in Matches, v \in Viewers, b \in TeamInputs \cup OutsiderInputs :
    CreateTeam(m, v, b.isArray, b.players, b.captain, b.vice)

SpecTeams == Init /\ [][NextTeams]_vars

\* ===================================================================== claims
\* The kind of answer a join request got, read off the reply the caller sees.
JoinKind(reply) ==
  CASE reply = Ok -> "ok"
    [] reply = Reply(400, "Contest closed") -> "closed"
    [] reply = Reply(400, "Contest closed - match already started") -> "closed"
    [] reply = Reply(400, "Entry limit reached for viewer") -> "limit"
    [] reply = Reply(400, "Contest is full") -> "full"
    [] reply = Reply(400, "This team is already joined in the contest") -> "duplicate"
    [] reply = Reply(500, "Join failed") -> "generic"
    [] OTHER -> "other"

EntriesOf(c) == {e \in entries : e.contestId = c}
Finished(j) == joins[j].pc = "done"

\* C1: a contest never holds two entries of the same team, however the join
\* requests interleave.
C1_OneEntryPerTeam ==
  \A c \in ContestIds : \A e1, e2 \in EntriesOf(c) :
    e1.teamId = e2.teamId => e1 = e2

\* C2: a contest never holds more entries than its maxEntries.
C2_WithinMaxEntries ==
  \A c \in ContestIds : Cardinality(EntriesOf(c)) <= contests[c].maxEntries

\* C3: a viewer never holds more entries in a contest than its perViewerLimit.
C3_WithinViewerLimit ==
  \A c \in ContestIds : \A v \in Viewers :
    Cardinality({e \in EntriesOf(c) : e.viewerName = v}) <= contests[c].perViewerLimit

\* The clock had reached the contest's closeTime or its match's startTime at
\* time t.
ThresholdPassed(c, t) ==
  \/ contests[c].closeTime # NoTime /\ contests[c].closeTime <= t
  \/ /\ matches[contests[c].matchId].startTime # NoTime
     /\ matches[contests[c].matchId].startTime <= t

RejectedAsClosed(j) ==
  /\ JoinKind(joins[j].reply) = "closed"
  /\ \A e \in entries : e.id # j

C5_DistinctRejections ==
  \A j \in JoinIds :
    (Finished(j) /\ joins[j].contestId \in ContestIds /\ joins[j].viewerName # NoViewer)
    => LET c == contests[joins[j].contestId]
           kind == JoinKind(joins[j].reply)
       IN /\ kind = "closed" <=> ThresholdPassed(joins[j].contestId, joins[j].at)
          /\ kind = "limit" <=> joins[j].currentEntries >= c.perViewerLimit
          /\ kind = "full" <=> joins[j].totalEntries >= c.maxEntries
          /\ kind = "duplicate" <=> joins[j].duplicate
          /\ kind # "ok" => \A e \in entries : e.id # j
          /\ kind = "ok" => \E e \in entries : e.id = j

C5_Witness ==
  \E j1, j2 \in JoinIds :
    /\ Finished(j1) /\ Finished(j2)
    /\ JoinKind(joins[j1].reply) = "duplicate"
    /\ JoinKind(joins[j2].reply) = "ok"
    /\ Cardinality(entries) = 1

C5_WitnessFull ==
  \E j \in JoinIds : Finished(j) /\ JoinKind(joins[j].reply) = "full"

C5_WitnessLimit ==
  \E j \in JoinIds : Finished(j) /\ JoinKind(joins[j].reply) = "limit"

\* ------------------------------------------------ claims about the recompute
\* The statistic with every field zero.
ZeroStat ==
  [runs |-> 0, fours |-> 0, sixes |-> 0, wickets |-> 0, maidens |-> 0,
   catches |-> 0, mvp |-> FALSE]

\* The statistic of the submitted array found under the upper-cased name of
\* player p (the last one, when several records carry that name), or ZeroStat.
StatUnder(stats, p) ==
  LET hits == {k \in 1..Len(stats) :
                 /\ "playerName" \in DOMAIN stats[k]
                 /\ stats[k].playerName # ""
                 /\ ToUpper(stats[k].playerName) = ToUpper(p)}
  IN IF hits = {} THEN ZeroStat
     ELSE stats[CHOOSE k \in hits : \A h \in hits : h <= k]

RECURSIVE SumOver(_, _, _)
SumOver(stats, t, n) ==
  IF n = 0 THEN 0
  ELSE SumOver(stats, t, n - 1)
       + computePoints(StatUnder(stats, t.players[n]),
                       t.players[n] = t.captain, t.players[n] = t.vice)

\* What one submission of stats, running alone, leaves as team t's total.
ExpectedTotal(stats, t) == SumOver(stats, t, Len(t.players))

TeamsOf(m) == {i \in 1..Len(teams) : teams[i].matchId = m}
Answered(r) == submits[r].pc = "done" /\ submits[r].reply = Ok
Alone(r) == obs.conc[r] = {}

\* C6: when a submission that ran alone and succeeded is followed, with no
\* write in between, by another one with the same statistics that also ran
\* alone and succeeded, every team's total after the second equals its total
\* after the first.
C6_RecomputeIdempotent ==
  \A m \in Matches : \A r1, r2 \in SubmitIds :
    (/\ obs.last[m].valid /\ obs.last[m].by = r2
     /\ Answered(r2) /\ Alone(r2)
     /\ obs.pred[r2].valid /\ obs.pred[r2].by = r1
     /\ Answered(r1) /\ Alone(r1)
     /\ submits[r1].stats = submits[r2].stats)
    => \A i \in TeamsOf(m) :
         /\ i <= Len(obs.pred[r2].totals)
         /\ teams[i].totalPoints = obs.pred[r2].totals[i]

C6_Witness ==
  \E r1, r2 \in SubmitIds :
    /\ obs.last["m1"].valid /\ obs.last["m1"].by = r2
    /\ Answered(r2) /\ Alone(r2)
    /\ obs.pred[r2].valid /\ obs.pred[r2].by = r1
    /\ Answered(r1) /\ Alone(r1)
    /\ submits[r1].stats = submits[r2].stats
    /\ \E i \in TeamsOf("m1") : teams[i].totalPoints > 0

\* C7: when two submissions of the same statistics for a match overlap each
\* other and nothing else, and at least one of them succeeds, then once both
\* have answered every team's total is the total one such submission alone
\* would have produced.
C7_ConcurrentSameStats ==
  \A m \in Matches : \A r1, r2 \in SubmitIds :
    (/\ r1 # r2
     /\ obs.last[m].valid /\ obs.last[m].by = r2
     /\ submits[r1].pc = "done" /\ submits[r1].matchId = m
     /\ obs.conc[r1] = {r2} /\ obs.conc[r2] = {r1}
     /\ submits[r1].stats = submits[r2].stats
     /\ (Answered(r1) \/ Answered(r2)))
    => \A i \in TeamsOf(m) :
         teams[i].totalPoints = ExpectedTotal(submits[r2].stats, teams[i])

C7_Witness ==
  \E r1, r2 \in SubmitIds :
    /\ r1 # r2
    /\ obs.last["m1"].valid /\ obs.last["m1"].by = r2
    /\ obs.conc[r1] = {r2} /\ obs.conc[r2] = {r1}
    /\ submits[r1].stats = submits[r2].stats
    /\ Answered(r1) /\ Answered(r2)
    /\ Cardinality(TeamsOf("m1")) = 2
    /\ \A i \in TeamsOf("m1") : teams[i].totalPoints > 0

\* C8: after a submission that ran alone has succeeded, every team of the
\* match has as totalPoints the sum over its players p of
\* computePoints(the statistic under p's upper-cased name or the zero
\* statistic, p = captain, p = vice).
C8_TotalsFollowStats ==
  \A m \in Matches :
    (obs.last[m].valid /\ Answered(obs.last[m].by) /\ Alone(obs.last[m].by))
    => \A i \in TeamsOf(m) :
         teams[i].totalPoints =
           ExpectedTotal(submits[obs.last[m].by].stats, teams[i])

C8_Witness ==
  /\ obs.last["m1"].valid /\ Answered(obs.last["m1"].by)
  /\ Alone(obs.last["m1"].by)
  /\ \E i \in TeamsOf("m1") :
       /\ teams[i].captain = teams[i].vice
       /\ teams[i].totalPoints > 0
  /\ \E i \in TeamsOf("m1") :
       /\ teams[i].captain # teams[i].vice
       /\ teams[i].totalPoints > 0

\* C9 as stated: after a submission has succeeded, the statistics stored on
\* the match are exactly the array it submitted.
C9_StoredIsSubmitted ==
  \A m \in Matches :
    (obs.last[m].valid /\ Answered(obs.last[m].by))
    => matches[m].stats = submits[obs.last[m].by].stats

\* C9 as amended: after a submission that no other submission of the match
\* overlapped has succeeded, the statistics stored on the match are exactly
\* the array it submitted, whatever was stored before; and when no team was
\* created meanwhile either, every total is computed from that array alone, so
\* a player named only in the earlier statistics adds 0.
C9_StoredIsSubmittedAlone ==
  \A m \in Matches :
    LET r == obs.last[m].by
    IN (obs.last[m].valid /\ Answered(r) /\ obs.conc[r] \cap SubmitIds = {})
       => /\ matches[m].stats = submits[r].stats
          /\ Alone(r) =>
               \A i \in TeamsOf(m) :
                 teams[i].totalPoints = ExpectedTotal(submits[r].stats, teams[i])

\* A submission replaced the statistics of an earlier one that had given
\* Virat's team points; Virat is not in the new array.
C9_Witness ==
  \E r1, r2 \in SubmitIds :
    /\ obs.last["m1"].valid /\ obs.last["m1"].by = r2
    /\ Answered(r2) /\ Alone(r2)
    /\ obs.pred[r2].valid /\ obs.pred[r2].by = r1 /\ Answered(r1)
    /\ submits[r1].stats = <<StatRohit, StatVirat>>
    /\ submits[r2].stats = <<StatNameless, StatRohit, StatRohitOld>>
    /\ matches["m1"].stats = submits[r2].stats
    /\ \E i \in TeamsOf("m1") :
         /\ obs.pred[r2].totals[i] > teams[i].totalPoints
         /\ teams[i].vice = "virat"

\* C10: when the update of one team's total fails during a recompute, the
\* submission still walks through all the teams it found and answers with
\* success.
C10_FailureDoesNotStopBatch ==
  \A r \in SubmitIds :
    (submits[r].pc = "done" /\ submits[r].teamIds # <<>>)
    => /\ submits[r].i > Len(submits[r].teamIds)
       /\ submits[r].reply = Ok

\* ---------------------------------------------------- claims about the events
\* The events of the given name that submission r has sent.
SentBy(r, name) ==
  {k \in 1..Len(events) : events[k].name = name /\ events[k].by = r}

RecomputeEventNames == {"matchStatsUpdate", "leaderboardUpdate"}

StatFields == {"runs", "fours", "sixes", "wickets", "maidens", "catches", "mvp"}

\* The statistic with every missing field filled in: 0, or FALSE for mvp.
Completed(stat) ==
  [f \in StatFields |->
     IF f \in DOMAIN stat THEN stat[f] ELSE IF f = "mvp" THEN FALSE ELSE 0]

\* The scoring table, for a statistic that has every field.
TablePoints(stat) ==
  stat.runs + stat.fours + 2 * stat.sixes + 25 * stat.wickets
  + (IF stat.wickets >= 3 THEN 10 ELSE 0)
  + 10 * stat.maidens + 8 * stat.catches + (IF stat.mvp THEN 15 ELSE 0)

\* 1.5 * p rounded to the nearest integer, halves up: the n with
\* n - 1/2 <= 3p/2 < n + 1/2.
OneAndHalf(p) == CHOOSE n \in 0..(2 * p) : 2 * n - 1 <= 3 * p /\ 3 * p < 2 * n + 1

Returned == call.outcome = "returned"
Unflagged == ~call.isCaptain /\ ~call.isVice
OnlyWickets(w) == Completed([wickets |-> w])
Stat59 ==
  [runs |-> 45, fours |-> 4, sixes |-> 1, wickets |-> 0, maidens |-> 0,
   catches |-> 1, mvp |-> FALSE]

\* C12: for a statistic with all its fields and no flag set, computePoints
\* returns runs + fours + 2*sixes + 25*wickets + (10 if wickets >= 3)
\* + 10*maidens + 8*catches + (15 if mvp); three wickets alone give 85, two
\* wickets alone give 50.
C12_ScoringTable ==
  (Returned /\ call.kind = "object" /\ call.stat \in FullStats /\ Unflagged)
  => /\ call.result = TablePoints(call.stat)
     /\ call.stat = OnlyWickets(3) => call.result = 85
     /\ call.stat = OnlyWickets(2) => call.result = 50

C12_Witness ==
  /\ Returned /\ Unflagged
  /\ call.stat = OnlyWickets(3)
  /\ call.result = 85

\* C13: computePoints never fails; a missing field counts as 0; a statistic
\* with every field zero or missing and no flag gives 0; a statistic that is
\* missing or null gives 0.
C13_NeverFails ==
  /\ call.outcome # "threw"
  /\ Returned => call.result =
                   computePoints(Completed(call.stat), call.isCaptain, call.isVice)
  /\ (Returned /\ Unflagged /\ TablePoints(Completed(call.stat)) = 0)
     => call.result = 0
  /\ (call.outcome # "pending" /\ call.kind \in {"undefined", "null"})
     => Returned /\ call.result = 0

\* C14: with only the captain flag computePoints returns twice the base
\* points, with only the vice-captain flag 1.5 times the base points rounded
\* to the nearest integer, halves up (59 gives 118 and 89).
C14_Multipliers ==
  Returned =>
    LET base == TablePoints(Completed(call.stat))
    IN /\ (call.isCaptain /\ ~call.isVice) =>
            /\ call.result = 2 * base
            /\ base = 59 => call.result = 118
       /\ (call.isVice /\ ~call.isCaptain) =>
            /\ call.result = OneAndHalf(base)
            /\ base = 59 => call.result = 89

C14_Witness ==
  /\ Returned /\ call.isVice /\ ~call.isCaptain
  /\ call.stat = Stat59
  /\ call.result = 89

\* C15: with both flags set computePoints applies the captain multiplier
\* only: the result is twice the base points.
C15_CaptainWins ==
  (Returned /\ call.isCaptain /\ call.isVice)
  => call.result = 2 * TablePoints(Completed(call.stat))

\* ------------------------------------------------ claims about the leaderboard
Listed(b) == boards[b].pc = "done" /\ boards[b].reply = Ok

\* The non-banned teams of the request's match when its query ran.
ListableThen(b) ==
  {i \in 1..Len(boards[b].seen) :
     teams[i].matchId = boards[b].matchId /\ ~boards[b].seen[i]}

\* C16: a leaderboard lists each non-banned team of the match exactly once
\* and no other team, each with the per-player sum of the recompute over the
\* match's statistics, in non-increasing order of total.
C16_BoardComplete ==
  \A b \in BoardIds :
    Listed(b) =>
      LET rows == boards[b].board
      IN /\ \A i \in ListableThen(b) :
              Cardinality({k \in 1..Len(rows) : rows[k].teamId = i}) = 1
         /\ \A k \in 1..Len(rows) :
              /\ rows[k].teamId \in ListableThen(b)
              /\ rows[k].total =
                   ExpectedTotal(boards[b].stats, teams[rows[k].teamId])
         /\ \A k \in 1..(Len(rows) - 1) : rows[k].total >= rows[k + 1].total

\* A board of two teams with different totals, the team created last on top;
\* the third team is banned.
C16_Witness ==
  \E b \in BoardIds :
    /\ Listed(b)
    /\ Len(boards[b].board) = 2
    /\ boards[b].board[1].teamId = 3
    /\ boards[b].board[1].total > boards[b].board[2].total
    /\ boards[b].board[2].total > 0
    /\ \E i \in 1..Len(boards[b].seen) : boards[b].seen[i]

\* C17: two leaderboards computed for the same match from the same stored
\* statistics and teams list the teams in the same order.
C17_SameOrder ==
  \A b1, b2 \in BoardIds :
    (/\ Listed(b1) /\ Listed(b2)
     /\ boards[b1].matchId = boards[b2].matchId
     /\ boards[b1].stats = boards[b2].stats
     /\ boards[b1].seen = boards[b2].seen)
    => boards[b1].board = boards[b2].board

\* ------------------------------------------------ claims about the auto-close
\* C18: a contest that is not closed and whose closeTime or whose match's
\* startTime has passed is eventually closed and archived by the job, and a
\* closed contest is always one for which a threshold has passed.
C18_AutoClose ==
  /\ \A c \in ContestIds :
       (ThresholdPassed(c, now) /\ ~contests[c].closed)
         ~> (contests[c].closed /\ contests[c].archived)
  /\ [](\A c \in ContestIds : contests[c].closed => ThresholdPassed(c, now))

\* The job has closed the contest with a closeTime and the one whose match
\* has started, and has left the third one open.
C18_Witness ==
  /\ contests["c2"].closed /\ contests["c2"].archived
  /\ contests["c3"].closed /\ contests["c3"].archived
  /\ ~contests["c1"].closed /\ ~contests["c1"].archived
  /\ Cardinality({k \in 1..Len(events) : events[k].name = "contestClosed"}) = 2

\* ------------------------------------------------------ claims about the teams
\* C19: no two stored teams have the same match and the same viewer.
C19_OneTeamPerViewer ==
  \A i, k \in 1..Len(teams) :
    (teams[i].matchId = teams[k].matchId /\ teams[i].viewerName = teams[k].viewerName)
    => i = k

\* The players value of the latest team-creation request is a list of 11.
ElevenNames == teamCall.isArray /\ Len(teamCall.players) = 11

\* C20: a team-creation request whose players value is not a list of exactly
\* 11 names gets the validation error and leaves the teams as they were, and
\* every stored team has exactly 11 players.
C20_ElevenPlayers ==
  /\ [](/\ \A i \in 1..Len(teams) : Len(teams[i].players) = 11
        /\ (teamCall.reply # NoReply /\ ~ElevenNames)
           => teamCall.reply = Reply(400, "Team must have 11 players"))
  /\ [][(teamCall' # teamCall /\ ~ElevenNames') => teams' = teams]_vars

\* A team exists, and a later request with a list of two players was refused.
C20_Witness ==
  /\ Len(teams) = 1
  /\ teamCall.isArray /\ Len(teamCall.players) = 2
  /\ teamCall.reply = Reply(400, "Team must have 11 players")

\* A submission that arrived naming a match that does not exist, or with a
\* stats value that is not an array.
Refused(r) ==
  /\ submits[r].pc # "idle"
  /\ (~submits[r].asked.isArray \/ submits[r].asked.matchId \notin DOMAIN matches)

\* C26: a submission that names a match that does not exist, or whose stats
\* value is not an array, is answered with an error (400 or 404) and has sent
\* no event; the step that takes the request changes no stored statistics
\* and no team, and the request takes no step after it.
C26_RefusedChangesNothing ==
  /\ [](\A r \in SubmitIds :
          Refused(r)
          => /\ submits[r].pc = "done"
             /\ submits[r].reply \in {Reply(400, "stats must be array"),
                                      Reply(404, "No match")}
             /\ \A name \in RecomputeEventNames : SentBy(r, name) = {})
  /\ [][\A r \in SubmitIds :
          (/\ submits[r].pc = "idle" /\ submits'[r].pc # "idle"
           /\ (~submits'[r].asked.isArray
               \/ submits'[r].asked.matchId \notin DOMAIN matches))
          => UNCHANGED <<matches, teams, events>>]_vars

C26_Witness ==
  /\ Answered(1)
  /\ Refused(2) /\ submits[2].asked.isArray
  /\ matches["m1"].stats # <<>>
  /\ \E i \in TeamsOf("m1") : teams[i].totalPoints > 0

\* C27: when two submissions for a match with different statistics have
\* overlapped each other and nothing else, both have answered 200 and nothing
\* has written since, every team's stored total is the total computed from
\* the statistics now stored on the match.
C27_TotalsFromStoredStats ==
  \A m \in Matches : \A r1, r2 \in SubmitIds :
    (/\ r1 # r2
     /\ obs.last[m].valid /\ obs.last[m].by = r2
     /\ submits[r1].matchId = m
     /\ obs.conc[r1] = {r2} /\ obs.conc[r2] = {r1}
     /\ submits[r1].stats # submits[r2].stats
     /\ Answered(r1) /\ Answered(r2))
    => \A i \in TeamsOf(m) :
         teams[i].totalPoints = ExpectedTotal(matches[m].stats, teams[i])

\* C28: no step inserts a ContestEntry into a contest that the auto-close
\* job has already marked closed.
C28_NoEntryAfterClose ==
  [][\A e \in entries' \ entries : ~contests[e.contestId].closed]_vars

\* C23: every stored team has its captain and its vice among its players.
C23_CaptainAmongPlayers ==
  \A i \in 1..Len(teams) :
    /\ \E k \in 1..Len(teams[i].players) : teams[i].players[k] = teams[i].captain
    /\ \E k \in 1..Len(teams[i].players) : teams[i].players[k] = teams[i].vice

\* The step writes team i's total in the loop of a recompute of i's match
\* (a statistics submission or a scorecard upload).
RecomputeWrites(i) ==
  \/ \E r \in SubmitIds :
       /\ submits[r].pc = "loop" /\ submits'[r].i = submits[r].i + 1
       /\ submits[r].teamIds[submits[r].i] = i
       /\ submits[r].matchId = teams[i].matchId
  \/ /\ upload.pc = "loop" /\ upload'.i = upload.i + 1
     /\ upload.teamIds[upload.i] = i
     /\ upload.matchId = teams[i].matchId

\* C21: a stored team's totalPoints changes only in a step of a recompute of
\* the team's own match that writes this team; a team that is created has
\* totalPoints 0; no team is removed.  Joins, logo uploads, the auto-close
\* job, leaderboard reads and recomputes of other matches change no total.
C21_TotalsFrame ==
  [][/\ Len(teams') >= Len(teams)
     /\ \A i \in 1..Len(teams) :
          teams'[i].totalPoints # teams[i].totalPoints => RecomputeWrites(i)
     /\ \A i \in (Len(teams) + 1)..Len(teams') : teams'[i].totalPoints = 0]_vars

C21_Witness ==
  /\ Len(teams) = 2 /\ teams[2].matchId = "m2" /\ teams[2].totalPoints > 0
  /\ teams[1].totalPoints = TeamTotal(<<StatRohit, StatVirat>>, teams[1])
  /\ teams[1].totalPoints > 0
  /\ Answered(1) /\ submits[1].matchId = "m2"
  /\ entries # {}
  /\ logo.pc = "done" /\ logo.reply = Ok
  /\ contests["c2"].closed
  /\ boards[1].pc = "done" /\ boards[1].reply = Ok

\* C22: an entry holds the players, captain, vice, viewer and match of its
\* team and the match of its contest, and no step changes an entry: from one
\* state to the next an entry stays as it is or is gone.
C22_EntriesNeverModified ==
  /\ [](\A e \in entries :
          /\ e.players = teams[e.teamId].players
          /\ e.captain = teams[e.teamId].captain
          /\ e.vice = teams[e.teamId].vice
          /\ e.viewerName = teams[e.teamId].viewerName
          /\ e.matchId = teams[e.teamId].matchId
          /\ e.matchId = contests[e.contestId].matchId)
  /\ [][\A e \in entries : e \in entries' \/ (\A f \in entries' : f.id # e.id)]_vars

C22_Witness ==
  /\ Cardinality(entries) = 2
  /\ Answered(1) /\ teams[4].totalPoints > 0
  /\ contests["c2"].closed

\* C25: once a contest deletion has answered 200 and no join is in flight,
\* no entry refers to the deleted contest.
C25_NoEntryOfDeletedContest ==
  (/\ del.pc = "done" /\ del.reply = Ok
   /\ \A j \in JoinIds : joins[j].pc \in {"idle", "done"})
  => \A e \in entries : e.contestId # del.contestId

\* C29: when the leaderboard's team query runs while a submission for the
\* match has answered 200 and nothing has written to the match since, and the
\* statistics the request read are the stored ones, the total of every row
\* equals the stored totalPoints of the row's team.
C29_BoardShowsStoredTotals ==
  [][\A b \in BoardIds :
       (/\ boards[b].pc = "find"
        /\ boards'[b].pc = "done" /\ boards'[b].reply = Ok
        /\ obs.last[boards[b].matchId].valid
        /\ Answered(obs.last[boards[b].matchId].by)
        /\ boards[b].stats = matches[boards[b].matchId].stats)
       => \A k \in 1..Len(boards'[b].board) :
            boards'[b].board[k].total
              = teams[boards'[b].board[k].teamId].totalPoints]_vars

\* C30: an upload whose payload gives no statistics, through the adapter and
\* every fallback, is answered at once with statsCount 0; the step that takes
\* it changes no match and no team and sends no event, and the request sends
\* no event later.
C30_EmptyUploadChangesNothing ==
  /\ []((upload.pc # "idle" /\ upload.stats = <<>>)
        => /\ upload.pc = "done"
           /\ upload.reply.status = 200 /\ upload.reply.statsCount = 0
           /\ \A k \in DOMAIN events : events[k].by # UploadId)
  /\ [][(upload.pc = "idle" /\ upload'.pc # "idle" /\ upload'.stats = <<>>)
        => UNCHANGED <<matches, teams, events>>]_vars

C30_Witness ==
  /\ upload.pc = "done" /\ upload.stats = <<>>
  /\ upload.provider = "example"
  /\ upload.raw.kind = "object"
  /\ "innings" \in DOMAIN upload.raw /\ upload.raw.innings # <<>>
  /\ matches["m1"].stats # <<>>
  /\ \E i \in TeamsOf("m1") : teams[i].totalPoints > 0

\* Every row of every innings of a payload, and how many of them have no name.
RECURSIVE InningsRows(_, _)
InningsRows(innings, i) ==
  IF i > Len(innings) THEN <<>>
  ELSE Rows(innings[i], "batting") \o Rows(innings[i], "bowling")
       \o Rows(innings[i], "fielding") \o InningsRows(innings, i + 1)

NamelessRows(rows) == Cardinality({k \in 1..Len(rows) : RowName(rows[k]) = ""})

\* C24: when the adapter has normalized a scorecard some of whose rows have
\* no player name and the upload has answered 200, every row with a name is
\* in the lookup, every team's total is the total of the normalized
\* statistics, and the answer reports the number of rows that were dropped.
C24_DroppedRowsCounted ==
  (/\ upload.pc = "done" /\ upload.reply.status = 200
   /\ upload.provider = "example" /\ "innings" \in DOMAIN upload.raw
   /\ upload.stats # <<>>
   /\ NamelessRows(InningsRows(upload.raw.innings, 1)) > 0)
  => LET rows == InningsRows(upload.raw.innings, 1)
     IN /\ \A k \in 1..Len(rows) :
             RowName(rows[k]) # ""
             => ToUpper(RowName(rows[k])) \in DOMAIN statMap(upload.stats)
        /\ \A i \in TeamsOf(upload.matchId) :
             teams[i].totalPoints = ExpectedTotal(upload.stats, teams[i])
        /\ upload.reply.statsCount = NamelessRows(rows)

====
